---- MODULE Spec2Model ----
(***************************************************************************)
(* Model of the Wallapop agent API server (src/src/server.ts: the express  *)
(* request surface, WallapopClient and the simplifiers) together with the   *)
(* chat instruction builder (src/src/browser.ts).                           *)
(*                                                                          *)
(* One inbound request is in flight at a time: the program keeps no state   *)
(* between requests, so interleavings of requests add nothing.  A request   *)
(* is received and routed, its handler runs up to its first await (the      *)
(* outbound fetch), the upstream settles the fetch, and the handler resumes *)
(* and answers, or passes an error to the error middleware.                 *)
(***************************************************************************)
EXTENDS Integers, Sequences, FiniteSets, TLC

VARIABLES pc, req, handler, outbound, reply, thrown, responses

vars == <<pc, req, handler, outbound, reply, thrown, responses>>

(***************************************************************************)
(* Bounds                                                                   *)
(***************************************************************************)
\* longest upstream item list of a search response
MaxItems == 2

(***************************************************************************)
(* JavaScript values.  Every value is a record tagged by its type, so that  *)
(* values of different types compare unequal.                               *)
(***************************************************************************)
Undef == [t |-> "undefined"]
Null == [t |-> "null"]
NaN == [t |-> "NaN"]
Str(s) == [t |-> "string", s |-> s]
Num(n) == [t |-> "number", n |-> n]
\* a non-integer number, carried by its decimal literal
Dec(d) == [t |-> "decimal", d |-> d]
Bool(b) == [t |-> "boolean", b |-> b]
Obj(f) == [t |-> "object", o |-> f]
Arr(a) == [t |-> "array", a |-> a]

\* a function with the keys of f whose value is not undefined
Defined(f) == [k \in {j \in DOMAIN f : f[j] # Undef} |-> f[k]]
\* object literal: a key bound to undefined reads the same as a missing key
MkObj(f) == Obj(Defined(f))

IsNullish(v) == v.t \in {"undefined", "null"}

Truthy(v) ==
    CASE v.t \in {"undefined", "null", "NaN"} -> FALSE
      [] v.t = "string" -> v.s # ""
      [] v.t = "number" -> v.n # 0
      [] v.t = "boolean" -> v.b
      [] OTHER -> TRUE

\* a || b
Or(a, b) == IF Truthy(a) THEN a ELSE b
\* a ?? b
Coalesce(a, b) == IF IsNullish(a) THEN b ELSE a
\* v.k for a v that is neither null nor undefined
Get(v, k) ==
    IF v.t = "object" /\ k \in DOMAIN v.o THEN v.o[k] ELSE Undef
\* v?.k
OptGet(v, k) == IF IsNullish(v) THEN Undef ELSE Get(v, k)
\* v?.[0]
OptFirst(v) ==
    IF v.t = "array" /\ Len(v.a) > 0 THEN v.a[1] ELSE Undef
\* typeof v
TypeOf(v) ==
    CASE v.t \in {"null", "array"} -> "object"
      [] v.t \in {"NaN", "decimal"} -> "number"
      [] OTHER -> v.t

\* String(v), also `${v}`
JsString(v) ==
    CASE v.t = "string" -> v.s
      [] v.t = "number" -> ToString(v.n)
      [] v.t = "decimal" -> v.d
      [] v.t = "boolean" -> IF v.b THEN "true" ELSE "false"
      [] v.t = "object" -> "[object Object]"
      [] v.t = "array" -> IF Len(v.a) = 0 THEN "" ELSE "[array]"
      [] OTHER -> v.t

\* Number(s) for the query strings of the model
JsNumber(s) ==
    CASE s = "" -> Num(0)
      [] s = "0" -> Num(0)
      [] s = "3" -> Num(3)
      [] s = "10" -> Num(10)
      [] s = "50" -> Num(50)
      [] s = "40.4168" -> Dec("40.4168")
      [] OTHER -> NaN

\* Math.min(a, b) of two numbers
MathMin(a, b) ==
    IF a.t = "number" /\ b.t = "number"
    THEN (IF a.n <= b.n THEN a ELSE b)
    ELSE NaN

(***************************************************************************)
(* Errors: the name of the constructor, the message, and the status        *)
(* property the error middleware reads.                                     *)
(***************************************************************************)
JsError(name, message) == [name |-> name, message |-> message, status |-> Undef]
NoError == [name |-> "", message |-> "", status |-> Undef]

Returned(v) == [ok |-> TRUE, val |-> v, err |-> NoError]
Threw(e) == [ok |-> FALSE, val |-> Undef, err |-> e]

(***************************************************************************)
(* src/src/server.ts 9-19                                                   *)
(***************************************************************************)
qs(val) ==
    CASE val.t = "string" -> val
      [] val.t = "array" /\ Len(val.a) > 0 /\ val.a[1].t = "string" -> val.a[1]
      [] OTHER -> Undef

qn(val) ==
    LET s == qs(val) IN IF IsNullish(s) THEN Undef ELSE JsNumber(s.s)

(***************************************************************************)
(* src/src/browser.ts 7-38                                                  *)
(***************************************************************************)
ChatBase == "https://es.wallapop.com/app/chat"
ItemBase == "https://es.wallapop.com/item/"

\* the click and type steps exchanged
buildChatInstructionsReordered(itemHash, message) ==
    LET url == Str(ChatBase \o "?itemId=" \o JsString(itemHash))
        steps == <<
            MkObj([action |-> Str("navigate"), url |-> url,
                   note |-> Str("Opens chat thread with seller for this item")]),
            MkObj([action |-> Str("snapshot"),
                   note |-> Str("Wait for page load, find textbox \"Escribe un mensaje...\"")]),
            MkObj([action |-> Str("type"), text |-> message, submit |-> Bool(TRUE),
                   note |-> Str("Type message and press Enter to send")]),
            MkObj([action |-> Str("click"),
                   selector |-> Str("textbox \"Escribe un mensaje...\""),
                   note |-> Str("Focus the message input")]),
            MkObj([action |-> Str("snapshot"),
                   note |-> Str("Verify message appears in chat with timestamp")]) >>
    IN  MkObj([hash |-> itemHash, chatUrl |-> url, message |-> message,
               steps |-> Arr(steps)])

buildChatInstructions(itemHash, message) ==
    LET url == Str(ChatBase \o "?itemId=" \o JsString(itemHash))
        steps == <<
            MkObj([action |-> Str("navigate"), url |-> url,
                   note |-> Str("Opens chat thread with seller for this item")]),
            MkObj([action |-> Str("snapshot"),
                   note |-> Str("Wait for page load, find textbox \"Escribe un mensaje...\"")]),
            MkObj([action |-> Str("click"),
                   selector |-> Str("textbox \"Escribe un mensaje...\""),
                   note |-> Str("Focus the message input")]),
            MkObj([action |-> Str("type"), text |-> message, submit |-> Bool(TRUE),
                   note |-> Str("Type message and press Enter to send")]),
            MkObj([action |-> Str("snapshot"),
                   note |-> Str("Verify message appears in chat with timestamp")]) >>
    IN  MkObj([hash |-> itemHash, chatUrl |-> url, message |-> message,
               steps |-> Arr(steps)])

(***************************************************************************)
(* WallapopClient, src/src/server.ts 213-395                                *)
(***************************************************************************)
WALLAPOP_API == "https://api.wallapop.com/api/v3"
REQUIRED_HEADERS == [Host |-> "api.wallapop.com", XDeviceOS |-> "0"]
PageHeaders == [UserAgent |-> "Mozilla/5.0 (Macintosh; Intel Mac OS X 10_15_7)"]
\* Barcelona defaults
DEFAULT_LAT == Dec("41.3891")
DEFAULT_LNG == Dec("2.1606")

NoFetch == [kind |-> "none", url |-> "", params |-> <<>>, headers |-> <<>>]

\* WallapopClient.get up to its await: the outbound request
get(path, params) ==
    [kind |-> "json",
     url |-> WALLAPOP_API \o path,
     params |-> [k \in {j \in DOMAIN params : ~IsNullish(params[j])} |->
                    JsString(params[k])],
     headers |-> REQUIRED_HEADERS]

ResOk(r) == r.status >= 200 /\ r.status <= 299

UpstreamMessage(r) == "Wallapop API " \o ToString(r.status) \o ": " \o r.text

\* WallapopClient.get after its await
getResult(r) ==
    IF r.kind = "rejected" THEN Threw(JsError("TypeError", "fetch failed"))
    ELSE IF ~ResOk(r) THEN Threw(JsError("Error", UpstreamMessage(r)))
    ELSE Returned(r.json)

\* the query with || in the place of ?? for the geo center
searchQueryFalsyGeo(params) ==
    LET P(k) == IF k \in DOMAIN params THEN params[k] ELSE Undef
        base == [step |-> Num(1), source |-> Str("keywords"),
                 limit |-> Coalesce(P("limit"), Num(20))]
        Cond(c, v) == IF c THEN v ELSE Undef
    IN  IF Truthy(P("nextPage"))
        THEN base @@ [next_page |-> P("nextPage")]
        ELSE base @@ Defined(
               [keywords |-> Cond(Truthy(P("keywords")), P("keywords")),
                min_sale_price |-> Cond(~IsNullish(P("minPrice")), P("minPrice")),
                max_sale_price |-> Cond(~IsNullish(P("maxPrice")), P("maxPrice")),
                distance |-> Cond(~IsNullish(P("distance")), P("distance")),
                latitude |-> Or(P("latitude"), DEFAULT_LAT),
                longitude |-> Or(P("longitude"), DEFAULT_LNG),
                category_id |-> Cond(~IsNullish(P("categoryId")), P("categoryId")),
                order_by |-> Cond(Truthy(P("orderBy")), P("orderBy"))])

\* the query with the keywords sent next to the cursor
searchQueryKeywordsWithCursor(params) ==
    LET P(k) == IF k \in DOMAIN params THEN params[k] ELSE Undef
        base == [step |-> Num(1), source |-> Str("keywords"),
                 limit |-> Coalesce(P("limit"), Num(20))]
        Cond(c, v) == IF c THEN v ELSE Undef
    IN  IF Truthy(P("nextPage"))
        THEN base @@ Defined(
               [next_page |-> P("nextPage"),
                keywords |-> Cond(Truthy(P("keywords")), P("keywords"))])
        ELSE base @@ Defined(
               [keywords |-> Cond(Truthy(P("keywords")), P("keywords")),
                min_sale_price |-> Cond(~IsNullish(P("minPrice")), P("minPrice")),
                max_sale_price |-> Cond(~IsNullish(P("maxPrice")), P("maxPrice")),
                distance |-> Cond(~IsNullish(P("distance")), P("distance")),
                latitude |-> Coalesce(P("latitude"), DEFAULT_LAT),
                longitude |-> Coalesce(P("longitude"), DEFAULT_LNG),
                category_id |-> Cond(~IsNullish(P("categoryId")), P("categoryId")),
                order_by |-> Cond(Truthy(P("orderBy")), P("orderBy"))])

\* the query WallapopClient.search builds
searchQuery(params) ==
    LET P(k) == IF k \in DOMAIN params THEN params[k] ELSE Undef
        base == [step |-> Num(1), source |-> Str("keywords"),
                 limit |-> Coalesce(P("limit"), Num(20))]
        Cond(c, v) == IF c THEN v ELSE Undef
    IN  IF Truthy(P("nextPage"))
        THEN base @@ [next_page |-> P("nextPage")]
        ELSE base @@ Defined(
               [keywords |-> Cond(Truthy(P("keywords")), P("keywords")),
                min_sale_price |-> Cond(~IsNullish(P("minPrice")), P("minPrice")),
                max_sale_price |-> Cond(~IsNullish(P("maxPrice")), P("maxPrice")),
                distance |-> Cond(~IsNullish(P("distance")), P("distance")),
                latitude |-> Coalesce(P("latitude"), DEFAULT_LAT),
                longitude |-> Coalesce(P("longitude"), DEFAULT_LNG),
                category_id |-> Cond(~IsNullish(P("categoryId")), P("categoryId")),
                order_by |-> Cond(Truthy(P("orderBy")), P("orderBy"))])

search(params) == get("/search", searchQuery(params))

\* a flag read as the presence of its holder
flagOfPresence(holder, name) == Bool(~IsNullish(holder))

\* holder?.name || false, as reserved?.flag, sold?.flag and
\* shipping?.user_allows_shipping are read
flagOf(holder, name) == Or(OptGet(holder, name), Bool(FALSE))

\* the search item without the default currency
simplifySearchItemNoDefault(item) ==
    MkObj([id |-> Get(item, "id"),
           title |-> Get(item, "title"),
           price |-> OptGet(Get(item, "price"), "amount"),
           currency |-> OptGet(Get(item, "price"), "currency"),
           city |-> OptGet(Get(item, "location"), "city"),
           distance |-> Get(item, "distance"),
           slug |-> Get(item, "web_slug"),
           url |-> Str(ItemBase \o JsString(Get(item, "web_slug"))),
           image |-> OptGet(OptGet(OptFirst(Get(item, "images")), "urls"), "medium"),
           sellerId |-> Get(item, "user_id"),
           reserved |-> flagOf(Get(item, "reserved"), "flag"),
           shippable |-> flagOf(Get(item, "shipping"), "user_allows_shipping"),
           createdAt |-> Get(item, "created_at")])

simplifySearchItem(item) ==
    MkObj([id |-> Get(item, "id"),
           title |-> Get(item, "title"),
           price |-> OptGet(Get(item, "price"), "amount"),
           currency |-> Or(OptGet(Get(item, "price"), "currency"), Str("EUR")),
           city |-> OptGet(Get(item, "location"), "city"),
           distance |-> Get(item, "distance"),
           slug |-> Get(item, "web_slug"),
           url |-> Str(ItemBase \o JsString(Get(item, "web_slug"))),
           image |-> OptGet(OptGet(OptFirst(Get(item, "images")), "urls"), "medium"),
           sellerId |-> Get(item, "user_id"),
           reserved |-> flagOf(Get(item, "reserved"), "flag"),
           shippable |-> flagOf(Get(item, "shipping"), "user_allows_shipping"),
           createdAt |-> Get(item, "created_at")])

\* WallapopClient.search after its await
searchResult(r) ==
    LET got == getResult(r)
        data == got.val
        found == OptGet(OptGet(OptGet(OptGet(data, "data"), "section"), "payload"),
                        "items")
        items == Or(found, Arr(<<>>))
    IN  IF ~got.ok THEN got
        ELSE Returned(Obj(
               [items |-> Arr([i \in 1..Len(items.a) |->
                                 simplifySearchItem(items.a[i])]),
                nextPage |-> Or(OptGet(OptGet(data, "meta"), "next_page"), Null),
                total |-> Num(Len(items.a))]))

NullRead(v, k) ==
    JsError("TypeError",
            "Cannot read properties of " \o v.t \o " (reading '" \o k \o "')")

\* title and description: the field handed on as it is
unwrapOriginalNot(field) == field

\* title and description: typeof field === 'object' ? field.original : field,
\* for a field that is not null
unwrapOriginal(field) ==
    IF TypeOf(field) = "object" THEN Get(field, "original") ELSE field

\* the price of the details with || in the place of ??
detailsPriceFalsy(rprice) ==
    Or(OptGet(OptGet(rprice, "cash"), "amount"),
       Or(OptGet(rprice, "amount"), Num(0)))

\* raw.price?.cash?.amount ?? raw.price?.amount ?? 0
detailsPrice(rprice) ==
    Coalesce(OptGet(OptGet(rprice, "cash"), "amount"),
             Coalesce(OptGet(rprice, "amount"), Num(0)))

simplifyItemDetails(raw) ==
    LET rtitle == Get(raw, "title")
        rdesc == Get(raw, "description")
        rprice == Get(raw, "price")
        images == Or(Get(raw, "images"), Arr(<<>>))
    IN  IF IsNullish(raw) THEN Threw(NullRead(raw, "title"))
        ELSE IF rtitle = Null THEN Threw(NullRead(Null, "original"))
        ELSE IF rdesc = Null THEN Threw(NullRead(Null, "original"))
        ELSE Returned(MkObj(
           [id |-> Get(raw, "id"),
            title |-> unwrapOriginal(rtitle),
            description |-> unwrapOriginal(rdesc),
            price |-> detailsPrice(rprice),
            currency |-> Or(OptGet(OptGet(rprice, "cash"), "currency"),
                            Or(OptGet(rprice, "currency"), Str("EUR"))),
            city |-> OptGet(Get(raw, "location"), "city"),
            seller |-> MkObj([id |-> OptGet(Get(raw, "user"), "id"),
                              name |-> OptGet(Get(raw, "user"), "micro_name")]),
            slug |-> Get(raw, "web_slug"),
            url |-> Str(ItemBase \o JsString(Get(raw, "web_slug"))),
            images |-> CASE images.t = "array" -> Num(Len(images.a))
                         [] images.t = "string" -> Num(Len(images.s))
                         [] OTHER -> Undef,
            reserved |-> flagOf(Get(raw, "reserved"), "flag"),
            sold |-> flagOf(Get(raw, "sold"), "flag"),
            counters |-> Or(Get(raw, "counters"), Null),
            createdAt |-> Get(raw, "creation_date")]))

\* WallapopClient.getItem after its await
getItemResult(r) ==
    LET got == getResult(r)
    IN  IF ~got.ok THEN got ELSE simplifyItemDetails(got.val)

(***************************************************************************)
(* Item pages.  A page is the sequence of its elements; an element has a    *)
(* tag, its attributes in document order, and its text.  The text of the    *)
(* hydration script is one of the JSON texts below.                         *)
(***************************************************************************)
TextItem == "{\"props\":{\"pageProps\":{\"item\":{\"id\":\"qzmmv570nlzv\"}}}}"
TextItemLt ==
    "{\"props\":{\"pageProps\":{\"item\":{\"id\":\"qzmmv570nlzv\",\"title\":\"<3\"}}}}"
TextNumericId == "{\"props\":{\"pageProps\":{\"item\":{\"id\":1232652380}}}}"
TextEmptyId == "{\"props\":{\"pageProps\":{\"item\":{\"id\":\"\"}}}}"
TextNoItem == "{\"props\":{\"pageProps\":{}}}"
TextNull == "null"
TextTruncated == "{\"props\":{\"pageProps\":"
TextHtml == "Not Found"

JsonTexts ==
    {TextItem, TextItemLt, TextNumericId, TextEmptyId, TextNoItem, TextNull,
     TextTruncated, TextHtml}

\* the texts that contain the character '<'
ContainsLt(text) == text \in {TextItemLt}

Nested(path, v) ==
    IF Len(path) = 0 THEN v
    ELSE LET RECURSIVE Wrap(_)
             Wrap(i) == IF i > Len(path) THEN v
                        ELSE Obj((path[i] :> Wrap(i + 1)))
         IN  Wrap(1)

\* JSON.parse over JsonTexts
JSONParse(text) ==
    CASE text = TextItem ->
           Returned(Nested(<<"props", "pageProps", "item", "id">>,
                           Str("qzmmv570nlzv")))
      [] text = TextItemLt ->
           Returned(Nested(<<"props", "pageProps", "item">>,
                           Obj([id |-> Str("qzmmv570nlzv"), title |-> Str("<3")])))
      [] text = TextNumericId ->
           Returned(Nested(<<"props", "pageProps", "item", "id">>,
                           Num(1232652380)))
      [] text = TextEmptyId ->
           Returned(Nested(<<"props", "pageProps", "item", "id">>, Str("")))
      [] text = TextNoItem ->
           Returned(Nested(<<"props", "pageProps">>, Obj(<<>>)))
      [] text = TextNull -> Returned(Null)
      [] OTHER -> Threw(JsError("SyntaxError", "Unexpected end of JSON input"))

NextDataAttrs == << <<"id", "__NEXT_DATA__">>, <<"type", "application/json">> >>

\* /<script\s+id="__NEXT_DATA__"\s+type="application\/json">([^<]+)<\/script>/
\* on one element: the two attributes, in this order and alone, and a text
\* that is not empty and has no '<'
ScriptMatches(el) ==
    /\ el.tag = "script"
    /\ el.attrs = NextDataAttrs
    /\ el.text # ""
    /\ ~ContainsLt(el.text)

\* html.match(...): the captured group of the first match, or no match
NoMatch == [found |-> FALSE, text |-> ""]
HtmlMatch(html) ==
    LET hits == {i \in 1..Len(html) : ScriptMatches(html[i])}
    IN  IF hits = {} THEN NoMatch
        ELSE [found |-> TRUE,
              text |-> html[CHOOSE i \in hits : \A j \in hits : i <= j].text]

(***************************************************************************)
(* WallapopClient.getItemHash, src/src/server.ts 316-338                    *)
(***************************************************************************)
\* the strings that start with "http", among Rest
UrlRests ==
    {"s://es.wallapop.com/item/mesa-redonda-1232652380", "-adapter-usb-55"}
StartsWithHttp(s) == \E rest \in UrlRests : s = "http" \o rest

fullUrlOf(urlOrSlug) ==
    IF StartsWithHttp(urlOrSlug) THEN urlOrSlug ELSE ItemBase \o urlOrSlug

\* getItemHash up to its await: the page fetch
getItemHash(urlOrSlug) ==
    [kind |-> "page", url |-> fullUrlOf(urlOrSlug), params |-> <<>>,
     headers |-> PageHeaders]

\* getItemHash after its await
getItemHashResult(r) ==
    LET match == HtmlMatch(r.html)
        parsed == JSONParse(match.text)
        hash == OptGet(OptGet(OptGet(OptGet(parsed.val, "props"), "pageProps"),
                              "item"), "id")
    IN  IF r.kind = "rejected" THEN Threw(JsError("TypeError", "fetch failed"))
        ELSE IF ~match.found
        THEN Threw(JsError("Error", "Could not find __NEXT_DATA__ in page"))
        ELSE IF ~parsed.ok THEN parsed
        ELSE IF ~Truthy(hash)
        THEN Threw(JsError("Error", "Could not extract item hash from page data"))
        ELSE Returned(hash)

\* WallapopClient.chatUrl
chatUrl(itemHash) == Str(ChatBase \o "?itemId=" \o JsString(itemHash))

(***************************************************************************)
(* The request surface, src/src/server.ts 20-191.  A handler is an express  *)
(* route callback; its part before the await yields either a response or    *)
(* the outbound fetch it awaits, and its part after the await yields the    *)
(* value it sends with res.json or the error it hands to next.              *)
(***************************************************************************)
Lit(s) == [lit |-> TRUE, s |-> s]
Param(name) == [lit |-> FALSE, s |-> name]

\* the routes in the order the app registers them
Routes == <<
    [method |-> "GET", pattern |-> <<Lit("health")>>, name |-> "health"],
    [method |-> "GET", pattern |-> <<Lit("api"), Lit("search")>>, name |-> "search"],
    [method |-> "GET", pattern |-> <<Lit("api"), Lit("items"), Param("id")>>,
     name |-> "item"],
    [method |-> "GET", pattern |-> <<Lit("api"), Lit("items"), Lit("hash")>>,
     name |-> "itemHash"],
    [method |-> "GET", pattern |-> <<Lit("api"), Lit("users"), Param("id")>>,
     name |-> "user"],
    [method |-> "GET",
     pattern |-> <<Lit("api"), Lit("users"), Param("id"), Lit("stats")>>,
     name |-> "userStats"],
    [method |-> "GET",
     pattern |-> <<Lit("api"), Lit("users"), Param("id"), Lit("items")>>,
     name |-> "userItems"],
    [method |-> "GET", pattern |-> <<Lit("api"), Lit("categories")>>,
     name |-> "categories"],
    [method |-> "POST", pattern |-> <<Lit("api"), Lit("chat")>>, name |-> "chat"],
    [method |-> "POST", pattern |-> <<Lit("api"), Lit("search-and-contact")>>,
     name |-> "searchAndContact"] >>

\* express matches a path against a route pattern segment by segment
PathMatches(pattern, path) ==
    /\ Len(pattern) = Len(path)
    /\ \A i \in 1..Len(pattern) : pattern[i].lit => pattern[i].s = path[i]

RouteMatches(route, r) ==
    route.method = r.method /\ PathMatches(route.pattern, r.path)

\* the first registered route that matches handles the request; no handler
\* of this app calls next() without an error, so no later route ever runs
MatchRoute(r) ==
    LET hits == {i \in 1..Len(Routes) : RouteMatches(Routes[i], r)}
    IN  IF hits = {} THEN "notFound"
        ELSE Routes[CHOOSE i \in hits : \A j \in hits : i <= j].name

\* req.params.<name> of the route that handles r
PathParam(r, routeName, name) ==
    LET route == CHOOSE x \in {Routes[i] : i \in 1..Len(Routes)} :
                     x.name = routeName
        at == CHOOSE i \in 1..Len(route.pattern) :
                  ~route.pattern[i].lit /\ route.pattern[i].s = name
    IN  r.path[at]

Q(r, k) == IF k \in DOMAIN r.query THEN r.query[k] ELSE Undef
B(r, k) == IF k \in DOMAIN r.body THEN r.body[k] ELSE Undef

Respond(status, body) ==
    [kind |-> "respond", status |-> status, body |-> body, fetch |-> NoFetch]
Await(fetch) ==
    [kind |-> "await", status |-> 0, body |-> Undef, fetch |-> fetch]

\* app.get('/api/search'): the SearchParams it builds
searchParams(r) ==
    [keywords |-> Or(qs(Q(r, "q")), qs(Q(r, "keywords"))),
     minPrice |-> qn(Q(r, "minPrice")),
     maxPrice |-> qn(Q(r, "maxPrice")),
     distance |-> qn(Q(r, "distance")),
     latitude |-> qn(Q(r, "lat")),
     longitude |-> qn(Q(r, "lng")),
     categoryId |-> qn(Q(r, "category")),
     orderBy |-> qs(Q(r, "orderBy")),
     limit |-> qn(Q(r, "limit")),
     nextPage |-> qs(Q(r, "nextPage"))]

\* app.post('/api/search-and-contact'): the SearchParams it builds
contactParams(r) ==
    LET limit == IF B(r, "limit") = Undef THEN Num(5) ELSE B(r, "limit")
    IN  [keywords |-> B(r, "query"),
         maxPrice |-> B(r, "maxPrice"),
         minPrice |-> B(r, "minPrice"),
         limit |-> MathMin(limit, Num(20)),
         distance |-> B(r, "distance"),
         latitude |-> B(r, "lat"),
         longitude |-> B(r, "lng")]

\* app.get('/health')
healthRoute(r) ==
    Respond(200, Obj([status |-> Str("ok"), service |-> Str("wallapop-agent")]))

\* app.get('/api/search') up to its await
searchRoute(r) == Await(search(searchParams(r)))

\* app.get('/api/items/:id') up to its await
itemRoute(r) == Await(get("/items/" \o PathParam(r, "item", "id"), <<>>))

\* app.get('/api/items/hash') up to its await
itemHashRoute(r) ==
    LET target == Or(qs(Q(r, "url")), qs(Q(r, "slug")))
    IN  IF ~Truthy(target)
        THEN Respond(400, Obj([error |-> Str("url or slug query param required")]))
        ELSE Await(getItemHash(target.s))

\* app.get('/api/users/:id'), '/api/users/:id/stats', '/api/users/:id/items'
\* and '/api/categories' up to their await
passThroughRoute(h, r) ==
    CASE h = "user" -> Await(get("/users/" \o PathParam(r, h, "id"), <<>>))
      [] h = "userStats" ->
           Await(get("/users/" \o PathParam(r, h, "id") \o "/stats", <<>>))
      [] h = "userItems" ->
           LET limit == qn(Q(r, "limit"))
               nextPage == qs(Q(r, "nextPage"))
           IN  Await(get("/users/" \o PathParam(r, h, "id") \o "/items",
                         Defined([limit |-> IF Truthy(limit) THEN limit ELSE Undef,
                                  next_page |-> IF Truthy(nextPage) THEN nextPage
                                                ELSE Undef])))
      [] OTHER -> Await(get("/categories", <<>>))

\* the chat route resolving the URL although a hash is given
chatRouteResolvesAnyway(r) ==
    LET itemUrl == B(r, "itemUrl")
        providedHash == B(r, "itemHash")
        message == B(r, "message")
    IN  IF ~Truthy(message)
        THEN Respond(400, Obj([error |-> Str("message required")]))
        ELSE IF ~Truthy(itemUrl) /\ ~Truthy(providedHash)
        THEN Respond(400, Obj([error |-> Str("itemUrl or itemHash required")]))
        ELSE IF ~Truthy(itemUrl)
        THEN Respond(200, buildChatInstructions(providedHash, message))
        ELSE Await(getItemHash(itemUrl.s))

\* app.post('/api/chat') up to its await
chatRoute(r) ==
    LET itemUrl == B(r, "itemUrl")
        providedHash == B(r, "itemHash")
        message == B(r, "message")
    IN  IF ~Truthy(message)
        THEN Respond(400, Obj([error |-> Str("message required")]))
        ELSE IF ~Truthy(itemUrl) /\ ~Truthy(providedHash)
        THEN Respond(400, Obj([error |-> Str("itemUrl or itemHash required")]))
        ELSE IF Truthy(providedHash)
        THEN Respond(200, buildChatInstructions(providedHash, message))
        ELSE Await(getItemHash(itemUrl.s))

\* search-and-contact resolving a hash page itself
searchAndContactRouteEager(r) ==
    IF ~Truthy(B(r, "query"))
    THEN Respond(400, Obj([error |-> Str("query required")]))
    ELSE IF ~Truthy(B(r, "message"))
    THEN Respond(400, Obj([error |-> Str("message required")]))
    ELSE Await(getItemHash(B(r, "query").s))

\* app.post('/api/search-and-contact') up to its await
searchAndContactRoute(r) ==
    IF ~Truthy(B(r, "query"))
    THEN Respond(400, Obj([error |-> Str("query required")]))
    ELSE IF ~Truthy(B(r, "message"))
    THEN Respond(400, Obj([error |-> Str("message required")]))
    ELSE Await(search(contactParams(r)))

\* each route callback up to its first await
HandlerEnter(h, r) ==
    CASE h = "health" -> healthRoute(r)
      [] h = "search" -> searchRoute(r)
      [] h = "item" -> itemRoute(r)
      [] h = "itemHash" -> itemHashRoute(r)
      [] h \in {"user", "userStats", "userItems", "categories"} ->
           passThroughRoute(h, r)
      [] h = "chat" -> chatRoute(r)
      [] h = "searchAndContact" -> searchAndContactRoute(r)
      [] OTHER -> Respond(404, Undef)

\* the answer without the filter on reserved
contactItemsUnfiltered(results, message) ==
    LET available == Get(results, "items").a
    IN  [n \in 1..Len(available) |->
           Obj(available[n].o @@
               [chatFlow |-> Obj(
                  [step1 |-> Str("GET /api/items/hash?slug=" \o
                                 JsString(Get(available[n], "slug"))),
                   step2 |-> Str("POST /api/chat { itemHash: \"<hash>\", message: \""
                                 \o JsString(message) \o "\" }")])])]

\* the items of the search-and-contact answer
contactItems(results, message) ==
    LET items == Get(results, "items").a
        available == SelectSeq(items, LAMBDA i : ~Truthy(Get(i, "reserved")))
    IN  [n \in 1..Len(available) |->
           Obj(available[n].o @@
               [chatFlow |-> Obj(
                  [step1 |-> Str("GET /api/items/hash?slug=" \o
                                 JsString(Get(available[n], "slug"))),
                   step2 |-> Str("POST /api/chat { itemHash: \"<hash>\", message: \""
                                 \o JsString(message) \o "\" }")])])]

\* app.get('/api/items/hash') after its await
itemHashResume(r, rep) ==
    LET got == getItemHashResult(rep)
    IN  IF ~got.ok THEN got
        ELSE Returned(Obj([hash |-> got.val, chatUrl |-> chatUrl(got.val)]))

\* app.post('/api/chat') after its await
chatResume(r, rep) ==
    LET got == getItemHashResult(rep)
    IN  IF ~got.ok THEN got
        ELSE Returned(buildChatInstructions(got.val, B(r, "message")))

\* app.post('/api/search-and-contact') after its await
searchAndContactResume(r, rep) ==
    LET got == searchResult(rep)
        items == contactItems(got.val, B(r, "message"))
    IN  IF ~got.ok THEN got
        ELSE Returned(Obj([items |-> Arr(items),
                           total |-> Num(Len(items)),
                           nextPage |-> Get(got.val, "nextPage")]))

\* each route callback after its await: the value it sends, or what it throws
HandlerResume(h, r, rep) ==
    CASE h = "search" -> searchResult(rep)
      [] h = "item" -> getItemResult(rep)
      [] h = "itemHash" -> itemHashResume(r, rep)
      [] h = "chat" -> chatResume(r, rep)
      [] h = "searchAndContact" -> searchAndContactResume(r, rep)
      [] OTHER -> getResult(rep)

\* the error middleware
errorHandler(err) ==
    [status |-> LET st == Or(err.status, Num(500)) IN st.n,
     body |-> Obj([error |-> Str(err.message)])]

(***************************************************************************)
(* The environment: the inbound requests and what the upstream answers.     *)
(***************************************************************************)
Request(method, path, query, body) ==
    [method |-> method, path |-> path, query |-> Defined(query),
     body |-> Defined(body)]

NoRequest == [method |-> "", path |-> <<>>, query |-> <<>>, body |-> <<>>]

Opt(v) == {Undef, v}

SearchRequests ==
    {Request("GET", <<"api", "search">>,
             [q |-> kw[1], keywords |-> kw[2],
              minPrice |-> price[1], maxPrice |-> price[2],
              distance |-> area[1], category |-> area[2],
              lat |-> geo[1], lng |-> geo[2],
              orderBy |-> orderBy, limit |-> limit, nextPage |-> nextPage],
             <<>>) :
        kw \in {<<Undef, Undef>>, <<Str("mesa"), Undef>>, <<Undef, Str("silla")>>},
        price \in {<<Undef, Undef>>, <<Str("0"), Str("50")>>},
        area \in {<<Undef, Undef>>, <<Str("10"), Str("3")>>},
        geo \in {<<Undef, Undef>>, <<Str("0"), Str("0")>>,
                 <<Str("40.4168"), Undef>>},
        orderBy \in Opt(Str("newest")),
        limit \in {Undef, Str("10"), Str("abc")},
        nextPage \in {Undef, Str(""), Str("cursor1")}}

ItemRequests ==
    {Request("GET", <<"api", "items", "1232652380">>, <<>>, <<>>)}
    \cup
    {Request("GET", <<"api", "items", "hash">>, [url |-> url, slug |-> slug], <<>>) :
        url \in {Undef, Str(""),
                 Str("https://es.wallapop.com/item/mesa-redonda-1232652380")},
        slug \in {Undef, Str("mesa-redonda-1232652380"),
                  Arr(<<Str("mesa-redonda-1232652380")>>)}}

PassThroughRequests ==
    {Request("GET", <<"health">>, <<>>, <<>>),
     Request("GET", <<"api", "users", "u1">>, <<>>, <<>>),
     Request("GET", <<"api", "users", "u1", "stats">>, <<>>, <<>>),
     Request("GET", <<"api", "categories">>, <<>>, <<>>),
     Request("GET", <<"api", "chat">>, <<>>, <<>>)}
    \cup
    {Request("GET", <<"api", "users", "u1", "items">>,
             [limit |-> limit, nextPage |-> nextPage], <<>>) :
        limit \in {Undef, Str("0"), Str("10")},
        nextPage \in Opt(Str("cursor1"))}

ChatRequests ==
    {Request("POST", <<"api", "chat">>, <<>>,
             [itemUrl |-> itemUrl, itemHash |-> itemHash, message |-> message]) :
        itemUrl \in {Undef, Str(""),
                     Str("https://es.wallapop.com/item/mesa-redonda-1232652380"),
                     Str("mesa-redonda-1232652380"), Str("http-adapter-usb-55")},
        itemHash \in {Undef, Str(""), Str("qzmmv570nlzv"), Str("p61v0gkwl5j3")},
        message \in {Undef, Str(""), Str("Hola!"), Str("Sigue disponible?")}}

ContactRequests ==
    {Request("POST", <<"api", "search-and-contact">>, <<>>,
             [query |-> query, message |-> message,
              minPrice |-> price[1], maxPrice |-> price[2],
              limit |-> limit, distance |-> distance,
              lat |-> geo[1], lng |-> geo[2]]) :
        query \in {Undef, Str(""), Str("mesa")},
        message \in {Undef, Str("Hola!")},
        price \in {<<Undef, Undef>>, <<Num(0), Num(50)>>},
        limit \in {Undef, Num(3), Num(50)},
        distance \in Opt(Num(10)),
        geo \in {<<Undef, Undef>>, <<Num(0), Num(0)>>}}

Requests ==
    SearchRequests \cup ItemRequests \cup PassThroughRequests \cup ChatRequests
    \cup ContactRequests

\* upstream search items
RawItems ==
    {Obj([id |-> Str("abc1"), title |-> Str("Mesa redonda"),
          price |-> Obj([amount |-> Num(25), currency |-> Str("EUR")]),
          location |-> Obj([city |-> Str("Barcelona")]),
          images |-> Arr(<<Obj([urls |-> Obj([medium |-> Str("m1.jpg")])])>>),
          shipping |-> Obj([user_allows_shipping |-> Bool(TRUE)]),
          user_id |-> Str("u1"), created_at |-> Num(1700),
          web_slug |-> Str("mesa-redonda-1232652380"), distance |-> Num(3)]),
     Obj([id |-> Str("abc2"), title |-> Str("Silla"),
          price |-> Obj([amount |-> Num(0)]),
          reserved |-> Obj([flag |-> Bool(TRUE)]),
          shipping |-> Obj([user_allows_shipping |-> Bool(FALSE)]),
          user_id |-> Str("u2"), created_at |-> Num(1701),
          web_slug |-> Str("silla-2")]),
     Obj([id |-> Str("abc3"), title |-> Str("Lampara"),
          reserved |-> Obj([flag |-> Bool(FALSE)]),
          images |-> Arr(<<>>),
          shipping |-> Obj(<<>>),
          user_id |-> Str("u1"), created_at |-> Num(1702),
          web_slug |-> Str("lampara-3")]),
     Obj([id |-> Str("abc4"), title |-> Str("Sofa"),
          price |-> Obj([amount |-> Num(120), currency |-> Str("USD")]),
          reserved |-> Obj(<<>>),
          user_id |-> Str("u3"), created_at |-> Num(1703),
          web_slug |-> Str("sofa-4")])}

ItemLists == UNION {[1..n -> RawItems] : n \in 0..MaxItems}

SearchBodies ==
    {Obj([data |-> Obj([section |-> Obj([payload |-> Obj([items |-> Arr(l)])])]),
          meta |-> meta]) :
        l \in ItemLists, meta \in {Obj(<<>>), Obj([next_page |-> Str("cursor2")])}}
    \cup {Obj(<<>>), Null}

\* upstream item details
RawDetails ==
    {Obj(Defined([id |-> id, title |-> title, description |-> description,
                  price |-> price, web_slug |-> id] @@ rest)) :
        id \in Opt(Str("1232652380")),
        title \in {Undef, Null, Str("Mesa"), Obj([original |-> Str("Mesa")])},
        description \in {Undef, Null, Str("Roble"), Obj([original |-> Str("Roble")])},
        price \in {Undef, Null, Obj([amount |-> Num(30)]),
                   Obj([cash |-> Obj([amount |-> Num(0), currency |-> Str("USD")]),
                        amount |-> Num(30), currency |-> Str("GBP")]),
                   Obj([cash |-> Obj(<<>>), amount |-> Num(0)])},
        rest \in {<<>>,
                  [images |-> Null, reserved |-> Null, sold |-> Null,
                   counters |-> Null, location |-> Null, user |-> Null],
                  [images |-> Arr(<<Str("a.jpg"), Str("b.jpg")>>),
                   reserved |-> Obj([flag |-> Bool(TRUE)]),
                   sold |-> Obj(<<>>),
                   counters |-> Obj([views |-> Num(7), favorites |-> Num(1),
                                     conversations |-> Num(0)]),
                   location |-> Obj([city |-> Str("Madrid")]),
                   user |-> Obj([id |-> Str("u1"), micro_name |-> Str("Ana")]),
                   creation_date |-> Num(1700)],
                  [images |-> Arr(<<>>),
                   reserved |-> Obj([flag |-> Bool(FALSE)]),
                   sold |-> Obj([flag |-> Bool(TRUE)])]}}

NoReply == [kind |-> "none", status |-> 0, text |-> "", json |-> Undef, html |-> <<>>]
JsonReply(json) ==
    [kind |-> "response", status |-> 200, text |-> "", json |-> json, html |-> <<>>]
ErrorReply(status, text) ==
    [kind |-> "response", status |-> status, text |-> text, json |-> Undef,
     html |-> <<>>]
PageReply(status, html) ==
    [kind |-> "response", status |-> status, text |-> "", json |-> Undef,
     html |-> html]
Rejected ==
    [kind |-> "rejected", status |-> 0, text |-> "", json |-> Undef, html |-> <<>>]

ErrorStatuses == {403, 404, 500}
ErrorTexts == {"", "Not Found"}
ErrorReplies == {ErrorReply(st, tx) : st \in ErrorStatuses, tx \in ErrorTexts}

Element(tag, attrs, text) == [tag |-> tag, attrs |-> attrs, text |-> text]
Banner == Element("div", << <<"id", "__next">> >>, "Wallapop")

Pages ==
    {<<>>, <<Banner>>,
     <<Banner, Element("script", NextDataAttrs, TextItem)>>,
     <<Element("script", NextDataAttrs, "")>>,
     <<Element("script",
               << <<"id", "__NEXT_DATA__">>, <<"type", "application/json">>,
                  <<"nonce", "r4nd0m">> >>, TextItem)>>,
     <<Element("script", << <<"type", "application/json">>,
                            <<"id", "__NEXT_DATA__">> >>, TextItem)>>,
     <<Element("script", NextDataAttrs, TextItemLt),
       Element("script", NextDataAttrs, TextNoItem)>>}
    \cup {<<Element("script", NextDataAttrs, text)>> : text \in JsonTexts}

PageStatuses == {200, 404}
PageReplies == {PageReply(st, html) : st \in PageStatuses, html \in Pages}

\* the strings that start with a URL scheme, among the URLs of the model
SchemeRests == {"es.wallapop.com/item/mesa-redonda-1232652380"}
HasUrlScheme(s) ==
    \E rest \in SchemeRests : s \in {"http://" \o rest, "https://" \o rest}

\* what the upstream may answer to an outbound request
Replies(fetch) ==
    {Rejected} \cup
    CASE fetch.kind = "page" ->
           \* fetch rejects a string that is not an absolute URL
           IF HasUrlScheme(fetch.url) THEN PageReplies ELSE {}
      [] fetch.url = WALLAPOP_API \o "/search" ->
           ErrorReplies \cup {JsonReply(b) : b \in SearchBodies}
      [] fetch.url \in {WALLAPOP_API \o "/items/1232652380",
                        WALLAPOP_API \o "/items/hash"} ->
           ErrorReplies \cup {JsonReply(b) : b \in RawDetails \cup {Null}}
      [] OTHER ->
           ErrorReplies \cup {JsonReply(Obj([id |-> Str("u1")])), JsonReply(Arr(<<>>))}

(***************************************************************************)
(* The state machine                                                       *)
(***************************************************************************)
Init ==
    /\ pc = "idle"
    /\ req = NoRequest
    /\ handler = ""
    /\ outbound = <<>>
    /\ reply = NoReply
    /\ thrown = NoError
    /\ responses = <<>>

\* a request arrives and the router picks the route callback
Receive(r) ==
    /\ pc = "idle"
    /\ req' = r
    /\ handler' = MatchRoute(r)
    /\ pc' = "routed"
    /\ UNCHANGED <<outbound, reply, thrown, responses>>

\* the route callback runs up to its first await, or to its response
Enter ==
    /\ pc = "routed"
    /\ LET eff == HandlerEnter(handler, req)
       IN  IF eff.kind = "respond"
           THEN /\ responses' = Append(responses,
                                       [status |-> eff.status, body |-> eff.body])
                /\ pc' = "done"
                /\ UNCHANGED outbound
           ELSE /\ outbound' = Append(outbound, eff.fetch)
                /\ pc' = "awaiting"
                /\ UNCHANGED responses
    /\ UNCHANGED <<req, handler, reply, thrown>>

\* the outbound fetch settles
Settle ==
    /\ pc = "awaiting"
    /\ \E rep \in Replies(outbound[Len(outbound)]) : reply' = rep
    /\ pc' = "settled"
    /\ UNCHANGED <<req, handler, outbound, thrown, responses>>

\* the route callback resumes: res.json(value), or next(err) and the error
\* middleware
Resume ==
    /\ pc = "settled"
    /\ LET got == HandlerResume(handler, req, reply)
       IN  IF got.ok
           THEN /\ responses' = Append(responses, [status |-> 200, body |-> got.val])
                /\ UNCHANGED thrown
           ELSE /\ thrown' = got.err
                /\ responses' = Append(responses, errorHandler(got.err))
    /\ pc' = "done"
    /\ UNCHANGED <<req, handler, outbound, reply>>

\* the request is over; nothing of it is kept
Finish ==
    /\ pc = "done"
    /\ pc' = "idle"
    /\ req' = NoRequest
    /\ handler' = ""
    /\ outbound' = <<>>
    /\ reply' = NoReply
    /\ thrown' = NoError
    /\ responses' = <<>>

Next ==
    \/ \E r \in Requests : Receive(r)
    \/ Enter
    \/ Settle
    \/ Resume
    \/ Finish

Spec == Init /\ [][Next]_vars

(***************************************************************************)
(* Vocabulary of the properties                                            *)
(***************************************************************************)
Answered == pc = "done" /\ Len(responses) = 1
Response == responses[1]
Fetch == outbound[1]
\* the handler awaited a fetch and has resumed with the upstream's answer
Resumed == pc = "done" /\ Len(outbound) = 1 /\ reply.kind = "response"

\* the two errors getItemHash raises itself: the code has no error classes,
\* its HashNotFoundError is a plain Error with one of these messages
HashNotFoundMessages ==
    {"Could not find __NEXT_DATA__ in page",
     "Could not extract item hash from page data"}
IsHashNotFoundError(e) == e.name = "Error" /\ e.message \in HashNotFoundMessages

\* the value at props.pageProps.item.id of a parsed document
IdAtPath(doc) ==
    OptGet(OptGet(OptGet(OptGet(doc, "props"), "pageProps"), "item"), "id")

\* the three cases of a page without a usable hash
TagMissing(html) == ~HtmlMatch(html).found
ContentNotJson(html) ==
    HtmlMatch(html).found /\ ~JSONParse(HtmlMatch(html).text).ok
FieldAbsent(html) ==
    /\ HtmlMatch(html).found
    /\ JSONParse(HtmlMatch(html).text).ok
    /\ IsNullish(IdAtPath(JSONParse(HtmlMatch(html).text).val))

ResolvedHash == Resumed /\ Fetch.kind = "page"

\* C1: hash resolution fails with HashNotFoundError, and with no other kind
\* of error, when the script tag is missing from the fetched page, when its
\* captured content is not valid JSON, and when the parsed document has no
\* value at props.pageProps.item.id.
C1_HashNotFoundInEachCase ==
    (/\ ResolvedHash
     /\ ResOk(reply)
     /\ \/ TagMissing(reply.html)
        \/ ContentNotJson(reply.html)
        \/ FieldAbsent(reply.html))
    => IsHashNotFoundError(thrown)

\* C2: a GET /api/items/hash request that carries a url or a slug is handled
\* by the hash route and answered with {hash, chatUrl}; the item details
\* route never handles it.
C2_HashRequestReachesHashRoute ==
    (/\ pc # "idle"
     /\ req.method = "GET"
     /\ req.path = <<"api", "items", "hash">>
     /\ Truthy(Or(qs(Q(req, "url")), qs(Q(req, "slug")))))
    => /\ handler = "itemHash"
       /\ (Answered /\ Response.status = 200)
            => DOMAIN Response.body.o = {"hash", "chatUrl"}

StepActions(steps) == [i \in 1..Len(steps) |-> Get(steps[i], "action")]

\* C3: buildChatInstructions(h, m) has exactly the five steps navigate,
\* snapshot, click, type, snapshot in this order; the url of the navigate
\* step and chatUrl are both the chat base followed by ?itemId=h; the type
\* step has text m and submit true.
C3_FiveStepsInOrder ==
    (Answered /\ handler = "chat" /\ Response.status = 200)
    => LET out == Response.body
           steps == Get(out, "steps").a
           h == IF Truthy(B(req, "itemHash")) THEN B(req, "itemHash")
                ELSE IdAtPath(JSONParse(HtmlMatch(reply.html).text).val)
           m == B(req, "message")
       IN  /\ StepActions(steps)
                = <<Str("navigate"), Str("snapshot"), Str("click"), Str("type"),
                    Str("snapshot")>>
           /\ Get(steps[1], "url") = Str(ChatBase \o "?itemId=" \o JsString(h))
           /\ Get(out, "chatUrl") = Get(steps[1], "url")
           /\ Get(steps[4], "text") = m
           /\ Get(steps[4], "submit") = Bool(TRUE)

C3_Witness ==
    /\ Answered /\ handler = "chat" /\ Response.status = 200
    /\ B(req, "itemHash") = Str("qzmmv570nlzv")
    /\ B(req, "message") = Str("Hola!")
    /\ Len(Get(Response.body, "steps").a) = 5

\* the upstream item list of a search response
RawItemsOf(r) ==
    LET found == OptGet(OptGet(OptGet(OptGet(r.json, "data"), "section"),
                               "payload"), "items")
    IN  IF found.t = "array" THEN found.a ELSE <<>>

RawReserved(item) == OptGet(Get(item, "reserved"), "flag") = Bool(TRUE)

ChatFlowOf(item, message) ==
    Obj([step1 |-> Str("GET /api/items/hash?slug=" \o JsString(Get(item, "web_slug"))),
         step2 |-> Str("POST /api/chat { itemHash: \"<hash>\", message: \""
                       \o JsString(message) \o "\" }")])

ContactAnswered ==
    Resumed /\ handler = "searchAndContact" /\ Response.status = 200

\* C4: the answer of search-and-contact has no item whose reserved flag is
\* true, and it has every item of the search result that is not reserved, in
\* the order of the search result, each with the two follow-up instructions
\* (resolve the hash by slug, then ask for the chat instructions) and with no
\* resolved hash.
C4_ReservedItemsLeftOut ==
    ContactAnswered
    => LET out == Get(Response.body, "items").a
           free == SelectSeq(RawItemsOf(reply), LAMBDA it : ~RawReserved(it))
       IN  /\ \A i \in 1..Len(out) : Get(out[i], "reserved") # Bool(TRUE)
           /\ Len(out) = Len(free)
           /\ \A i \in 1..Len(out) :
                /\ Get(out[i], "id") = Get(free[i], "id")
                /\ Get(out[i], "slug") = Get(free[i], "web_slug")
                /\ Get(out[i], "chatFlow") = ChatFlowOf(free[i], B(req, "message"))
                /\ "hash" \notin DOMAIN out[i].o

C4_Witness ==
    /\ ContactAnswered
    /\ \E i \in 1..Len(RawItemsOf(reply)) : RawReserved(RawItemsOf(reply)[i])
    /\ Len(RawItemsOf(reply)) = 2
    /\ Len(Get(Response.body, "items").a) = 1

FilterParams ==
    {"keywords", "min_sale_price", "max_sale_price", "distance", "latitude",
     "longitude", "category_id", "order_by"}

\* the search route was given a cursor and has issued its upstream query
SearchWithCursor ==
    /\ handler = "search"
    /\ Len(outbound) = 1
    /\ Truthy(qs(Q(req, "nextPage")))

\* C5 as stated: with a pagination cursor, the upstream query carries the
\* cursor and none of the other SearchQuery fields, the page size limit
\* included.
C5_CursorAloneAsStated ==
    SearchWithCursor
    => /\ Fetch.params["next_page"] = qs(Q(req, "nextPage")).s
       /\ DOMAIN Fetch.params \cap (FilterParams \cup {"limit"}) = {}

\* C5, amended: with a non-empty pagination cursor, the upstream query
\* carries the cursor, the fixed step and source markers and the page size
\* limit (the caller's, 20 by default), and none of keywords, price bounds,
\* radius, latitude, longitude, category and sort order.
C5_CursorDropsFilters ==
    SearchWithCursor
    => /\ DOMAIN Fetch.params = {"step", "source", "limit", "next_page"}
       /\ Fetch.params["next_page"] = qs(Q(req, "nextPage")).s
       /\ Fetch.params["limit"] = JsString(Coalesce(qn(Q(req, "limit")), Num(20)))
       /\ Fetch.params["step"] = "1"
       /\ Fetch.params["source"] = "keywords"

C5_Witness ==
    /\ SearchWithCursor
    /\ pc = "awaiting"
    /\ {"q", "minPrice", "maxPrice", "distance", "category", "lat", "lng",
        "orderBy", "limit"} \subseteq DOMAIN req.query
    /\ Fetch.params["next_page"] = "cursor1"

\* every field of the object is missing or null
EveryFieldMissingOrNull(raw) ==
    raw.t = "object" /\ \A k \in DOMAIN raw.o : raw.o[k] = Null

\* C6: simplifyItemDetails is total: on an object whose optional fields are
\* all missing or null it returns an ItemDetails with price 0, counters
\* null, images 0, currency EUR, and reserved and sold false.
C6_TotalWithDefaults ==
    (/\ Resumed /\ handler = "item" /\ ResOk(reply)
     /\ EveryFieldMissingOrNull(reply.json))
    => /\ thrown = NoError
       /\ Response.status = 200
       /\ Get(Response.body, "price") = Num(0)
       /\ Get(Response.body, "counters") = Null
       /\ Get(Response.body, "images") = Num(0)
       /\ Get(Response.body, "currency") = Str("EUR")
       /\ Get(Response.body, "reserved") = Bool(FALSE)
       /\ Get(Response.body, "sold") = Bool(FALSE)

ChatHandled == handler = "chat" /\ pc \in {"awaiting", "settled", "done"}
ChatInvalid ==
    \/ ~Truthy(B(req, "message"))
    \/ ~Truthy(B(req, "itemUrl")) /\ ~Truthy(B(req, "itemHash"))

\* C7: the chat route answers 400 when the message is absent and when
\* neither item URL nor hash is given; otherwise a given hash is used as it
\* is and no page is fetched, and with only the URL given the hash is
\* resolved by exactly one page fetch and the resolved hash is the hash of
\* the ChatInstructions returned.
C7_ChatValidationAndResolution ==
    ChatHandled
    => /\ ChatInvalid
            => (outbound = <<>> /\ Answered /\ Response.status = 400)
       /\ (~ChatInvalid /\ Truthy(B(req, "itemHash")))
            => /\ outbound = <<>>
               /\ Answered
               /\ Response.status = 200
               /\ Get(Response.body, "hash") = B(req, "itemHash")
       /\ (~ChatInvalid /\ ~Truthy(B(req, "itemHash")))
            => /\ Len(outbound) = 1
               /\ Fetch.kind = "page"
               /\ Fetch.url = fullUrlOf(B(req, "itemUrl").s)
               /\ (Answered /\ reply.kind = "response")
                    => IF Response.status = 200
                       THEN /\ Truthy(IdAtPath(JSONParse(HtmlMatch(reply.html).text).val))
                            /\ Get(Response.body, "hash")
                                 = IdAtPath(JSONParse(HtmlMatch(reply.html).text).val)
                       ELSE thrown # NoError

C7_Witness ==
    /\ ChatHandled /\ Answered
    /\ ~Truthy(B(req, "itemHash")) /\ Truthy(B(req, "itemUrl"))
    /\ Len(outbound) = 1
    /\ Response.status = 200
    /\ Get(Response.body, "hash") = Str("qzmmv570nlzv")

ContactValid ==
    handler = "searchAndContact" /\ Truthy(B(req, "query"))
    /\ Truthy(B(req, "message"))

\* C8: an inbound call makes at most one outbound fetch, also when the
\* upstream fails (no retry); search-and-contact makes exactly one search
\* fetch and no page fetch, however many items the search returns.
C8_AtMostOneFetch ==
    /\ Len(outbound) <= 1
    /\ \A i \in 1..Len(outbound) : outbound[i].kind \in {"json", "page"}
    /\ (ContactValid /\ pc \in {"awaiting", "settled", "done"})
         => /\ Len(outbound) = 1
            /\ Fetch.kind = "json"
            /\ Fetch.url = WALLAPOP_API \o "/search"

C8_Witness ==
    /\ ContactAnswered
    /\ Len(RawItemsOf(reply)) = MaxItems
    /\ Len(Get(Response.body, "items").a) = MaxItems
    /\ Len(outbound) = 1

UpstreamFailed == Resumed /\ Fetch.kind = "json" /\ ~ResOk(reply)

\* C9: when the upstream JSON API answers with a non-success status, the
\* call fails after that one attempt with an error that carries the status
\* code and the body text, and the response to the caller carries an error
\* description and the upstream's status code.
C9_UpstreamStatusSurfaced ==
    UpstreamFailed
    => /\ Len(outbound) = 1
       /\ thrown.message = UpstreamMessage(reply)
       /\ Get(Response.body, "error") = Str(thrown.message)
       /\ Response.status = reply.status

PageFetchFailed == ResolvedHash /\ ~ResOk(reply)

\* C10: the page fetch of hash resolution fails with UpstreamError when the
\* page host answers with a non-success status: the body of a failed fetch
\* is never scanned, so no hash comes out of it, and HashNotFoundError is
\* raised only for pages that were fetched successfully.
C10_FailedPageFetchIsUpstreamError ==
    /\ PageFetchFailed
         => /\ thrown # NoError
            /\ Response.status # 200
            /\ ~IsHashNotFoundError(thrown)
    /\ (ResolvedHash /\ IsHashNotFoundError(thrown)) => ResOk(reply)

\* the chat route resolves the hash of its itemUrl
ResolvesItemUrl ==
    handler = "chat" /\ Len(outbound) = 1 /\ Fetch.kind = "page"

\* C11: getItemHash fetches its input as it is exactly when the input
\* starts with a URL scheme, and for every other input, a slug that begins
\* with the letters "http" included, it fetches the canonical item URL
\* <marketplace-domain>/item/<slug>.
C11_VerbatimOnlyForUrls ==
    ResolvesItemUrl
    => LET urlOrSlug == B(req, "itemUrl").s
       IN  Fetch.url = IF HasUrlScheme(urlOrSlug) THEN urlOrSlug
                       ELSE ItemBase \o urlOrSlug

HasAttr(el, name, value) == \E i \in 1..Len(el.attrs) : el.attrs[i] = <<name, value>>

\* the element is a __NEXT_DATA__ script whose text is a well-formed JSON
\* document with a non-empty string at props.pageProps.item.id
EmbedsItemId(el) ==
    /\ el.tag = "script"
    /\ HasAttr(el, "id", "__NEXT_DATA__")
    /\ HasAttr(el, "type", "application/json")
    /\ JSONParse(el.text).ok
    /\ IdAtPath(JSONParse(el.text).val).t = "string"
    /\ IdAtPath(JSONParse(el.text).val) # Str("")

EmbeddedAt(html) == {i \in 1..Len(html) : EmbedsItemId(html[i])}
EmbeddedId(html) ==
    IdAtPath(JSONParse(html[CHOOSE i \in EmbeddedAt(html) :
                                \A j \in EmbeddedAt(html) : i <= j].text).val)

\* C12: on a page that contains a well-formed embedded __NEXT_DATA__ JSON
\* document with the identifier at props.pageProps.item.id, hash resolution
\* returns exactly that identifier string.
C12_ReturnsEmbeddedId ==
    (ResolvedHash /\ ResOk(reply) /\ EmbeddedAt(reply.html) # {})
    => /\ thrown = NoError
       /\ Response.status = 200
       /\ Get(Response.body, "hash") = EmbeddedId(reply.html)

SearchAnswered == Resumed /\ handler = "search" /\ ResOk(reply)
HasItemList(r) ==
    OptGet(OptGet(OptGet(OptGet(r.json, "data"), "section"), "payload"),
           "items").t = "array"

\* C13: for an upstream search response with N items, search returns N
\* items in the upstream order and total = N, each item with currency EUR
\* when the upstream item has no currency; a response without an item list
\* gives an empty list and total 0, and nextPage is null when the upstream
\* gives no cursor.
C13_SearchKeepsEveryItem ==
    SearchAnswered
    => LET raw == RawItemsOf(reply)
           out == Get(Response.body, "items").a
       IN  /\ Response.status = 200
           /\ Len(out) = Len(raw)
           /\ Get(Response.body, "total") = Num(Len(raw))
           /\ \A i \in 1..Len(raw) :
                /\ Get(out[i], "id") = Get(raw[i], "id")
                /\ Get(out[i], "slug") = Get(raw[i], "web_slug")
                /\ Get(out[i], "currency")
                     = IF OptGet(Get(raw[i], "price"), "currency") = Undef
                       THEN Str("EUR")
                       ELSE OptGet(Get(raw[i], "price"), "currency")
           /\ ~HasItemList(reply)
                => (out = <<>> /\ Get(Response.body, "total") = Num(0))
           /\ OptGet(OptGet(reply.json, "meta"), "next_page") = Undef
                => Get(Response.body, "nextPage") = Null

C13_Witness ==
    /\ SearchAnswered
    /\ Len(RawItemsOf(reply)) = 2
    /\ Get(RawItemsOf(reply)[1], "id") = Str("abc2")
    /\ Get(RawItemsOf(reply)[2], "id") = Str("abc1")
    /\ Get(Get(Response.body, "items").a[1], "currency") = Str("EUR")
    /\ Get(Response.body, "total") = Num(2)

ItemAnswered ==
    Resumed /\ handler = "item" /\ ResOk(reply) /\ Response.status = 200

\* C14: the price of item details is the nested cash amount when there is
\* one, else the flat amount when there is one, else 0, and an amount of 0
\* is kept; the price of a search item is the upstream amount and is left
\* undefined when the upstream has none.
C14_PricePreference ==
    /\ ItemAnswered
         => LET rprice == Get(reply.json, "price")
                cash == OptGet(OptGet(rprice, "cash"), "amount")
                flat == OptGet(rprice, "amount")
            IN  Get(Response.body, "price")
                  = IF ~IsNullish(cash) THEN cash
                    ELSE IF ~IsNullish(flat) THEN flat
                    ELSE Num(0)
    /\ SearchAnswered
         => \A i \in 1..Len(RawItemsOf(reply)) :
              LET item == RawItemsOf(reply)[i]
                  out == Get(Response.body, "items").a[i]
              IN  IF OptGet(Get(item, "price"), "amount") = Undef
                  THEN "price" \notin DOMAIN out.o
                  ELSE Get(out, "price") = Get(Get(item, "price"), "amount")

C14_Witness ==
    /\ ItemAnswered
    /\ Get(Get(Get(reply.json, "price"), "cash"), "amount") = Num(0)
    /\ Get(Get(reply.json, "price"), "amount") = Num(30)
    /\ Get(Response.body, "price") = Num(0)

StringOrOriginal(field) ==
    \/ field.t = "string"
    \/ field.t = "object" /\ Get(field, "original").t = "string"
PlainOf(field) == IF field.t = "string" THEN field ELSE Get(field, "original")

\* C15: when title and description of the raw item details are each a
\* string or an object with an "original" field, the normalized title and
\* description are plain strings: the "original" of an object, the value
\* itself of a string.
C15_TitleAndDescriptionPlain ==
    (/\ Resumed /\ handler = "item" /\ ResOk(reply)
     /\ StringOrOriginal(Get(reply.json, "title"))
     /\ StringOrOriginal(Get(reply.json, "description")))
    => /\ Response.status = 200
       /\ Get(Response.body, "title").t = "string"
       /\ Get(Response.body, "description").t = "string"
       /\ Get(Response.body, "title") = PlainOf(Get(reply.json, "title"))
       /\ Get(Response.body, "description")
            = PlainOf(Get(reply.json, "description"))

C15_Witness ==
    /\ ItemAnswered
    /\ Get(reply.json, "title") = Obj([original |-> Str("Mesa")])
    /\ Get(reply.json, "description") = Str("Roble")
    /\ Get(Response.body, "title") = Str("Mesa")

\* a search was issued without a cursor
SearchWithoutCursor ==
    /\ handler \in {"search", "searchAndContact"}
    /\ Len(outbound) = 1
    /\ handler = "search" => ~Truthy(qs(Q(req, "nextPage")))

\* the text of a number the caller gave, as the caller wrote it
CallerText(v) == IF v.t = "string" THEN v.s ELSE ToString(v.n)
CallerGeo(name) == IF handler = "search" THEN Q(req, name) ELSE B(req, name)

\* C16: a search without a cursor always sends a latitude and a longitude:
\* 41.3891 and 2.1606 when the caller gave none, the caller's own values
\* when the caller gave them, 0 included.
C16_GeoDefaultOnlyWhenUnspecified ==
    SearchWithoutCursor
    => /\ {"latitude", "longitude"} \subseteq DOMAIN Fetch.params
       /\ Fetch.params["latitude"]
            = IF CallerGeo("lat") = Undef THEN "41.3891"
              ELSE CallerText(CallerGeo("lat"))
       /\ Fetch.params["longitude"]
            = IF CallerGeo("lng") = Undef THEN "2.1606"
              ELSE CallerText(CallerGeo("lng"))

C16_Witness ==
    /\ SearchWithoutCursor
    /\ handler = "search"
    /\ Q(req, "lat") = Str("0")
    /\ Fetch.params["latitude"] = "0"
    /\ Fetch.params["longitude"] = "0"

\* the flag the upstream gives under holder.name, false when it gives none
UpstreamFlag(raw, holder, name) == OptGet(Get(raw, holder), name) = Bool(TRUE)

\* C17: reserved, sold and shippable of the normalized search items and
\* item details are booleans: true exactly when the nested upstream flag is
\* true, false when the flag object is absent and when it has no flag.
C17_FlagsAreBooleans ==
    /\ SearchAnswered
         => \A i \in 1..Len(RawItemsOf(reply)) :
              LET item == RawItemsOf(reply)[i]
                  out == Get(Response.body, "items").a[i]
              IN  /\ Get(out, "reserved") = Bool(UpstreamFlag(item, "reserved", "flag"))
                  /\ Get(out, "shippable")
                       = Bool(UpstreamFlag(item, "shipping", "user_allows_shipping"))
    /\ ItemAnswered
         => /\ Get(Response.body, "reserved")
                 = Bool(UpstreamFlag(reply.json, "reserved", "flag"))
            /\ Get(Response.body, "sold")
                 = Bool(UpstreamFlag(reply.json, "sold", "flag"))

C17_Witness ==
    /\ ItemAnswered
    /\ Get(reply.json, "reserved") = Obj([flag |-> Bool(TRUE)])
    /\ Get(reply.json, "sold") = Obj(<<>>)
    /\ Get(Response.body, "reserved") = Bool(TRUE)
    /\ Get(Response.body, "sold") = Bool(FALSE)

\* the request lacks a field its route requires
MissingRequiredField ==
    \/ /\ req.method = "GET" /\ req.path = <<"api", "items", "hash">>
       /\ ~Truthy(Or(qs(Q(req, "url")), qs(Q(req, "slug"))))
    \/ /\ req.method = "POST" /\ req.path = <<"api", "chat">>
       /\ ChatInvalid
    \/ /\ req.method = "POST" /\ req.path = <<"api", "search-and-contact">>
       /\ (~Truthy(B(req, "query")) \/ ~Truthy(B(req, "message")))

\* C18: validation comes before every outbound request: a call rejected for
\* a missing required field (hash route without url and slug, chat route
\* without message or without both itemUrl and itemHash, search-and-contact
\* without query or message) gets exactly one 400 response and makes no
\* upstream JSON fetch and no page fetch.
C18_RejectedBeforeAnyFetch ==
    MissingRequiredField
    => /\ outbound = <<>>
       /\ pc = "done" => (Len(responses) = 1 /\ Response.status = 400)
====
